---- MODULE Spec2Model ----
(***************************************************************************)
(* Model of the runtime transaction pool priority queue (package txpool,   *)
(* type priorityQueue): a btree ordered by (priority, hash), a hash map,   *)
(* running pool weights, weight limits and a cached lowest priority.       *)
(* Every public method locks the queue mutex on entry and holds it for its *)
(* whole body, so the body is one atomic action; the deferred Unlock is    *)
(* the step at which the call returns and its frame (arguments, results)   *)
(* is gone.  op, arg, err, batch and ret are the method, arguments and     *)
(* results of the call in progress; removed is the set of items that call  *)
(* took out of the priority index.                                         *)
(***************************************************************************)
EXTENDS Integers, Sequences, FiniteSets, TLC

VARIABLES priorityIndex, transactions, maxTxPoolSize, poolWeights,
          weightLimits, lowestPriority, locked, panicked, op, arg, err, batch,
          ret, removed, pc

vars == <<priorityIndex, transactions, maxTxPoolSize, poolWeights,
          weightLimits, lowestPriority, locked, panicked, op, arg, err, batch,
          ret, removed, pc>>

(***************************************************************************)
(* Bounds of the model.                                                    *)
(***************************************************************************)
NumHashes == 3
MaxPriority == 2
MaxPoolSize == 3
MaxLimit == 2

(***************************************************************************)
(* Weights and transactions.                                               *)
(***************************************************************************)
WeightCount == "count"
WeightSizeBytes == "size_bytes"
WeightConsensusMessages == "consensus_messages"
Dims == {WeightCount, WeightSizeBytes, WeightConsensusMessages}

\* A hash is a fixed-width byte string; the i-th hash of the model.
HashOf(i) == <<i % 2, i \div 2>>
Hashes == {HashOf(i) : i \in 0..(NumHashes - 1)}

\* The weight vector of the transaction with the i-th hash: the hash is the
\* digest of the transaction, so it fixes the transaction's size; the
\* transaction source guarantees count = 1.
WeightsOf(i) ==
    IF i % 2 = 0
    THEN [count |-> 1, size_bytes |-> 4, consensus_messages |-> 0]
    ELSE [count |-> 1, size_bytes |-> 16, consensus_messages |-> 1]

\* The checked transactions offered to the queue.
Txs == { [hash |-> HashOf(i), priority |-> p, weights |-> WeightsOf(i)] :
           i \in 0..(NumHashes - 1), p \in 0..MaxPriority }

\* Weight limit maps handed to newPriorityQueue and UpdateWeightLimits.
NoLimits == [d \in {} |-> 0]
LimitChoices ==
    { NoLimits,
      [count |-> 2, size_bytes |-> 18],
      [count |-> 1, consensus_messages |-> 0],
      [count |-> 0, size_bytes |-> 8],
      [size_bytes |-> 8] }

Nil == "nil"
\* No call is in progress.
Idle == "idle"
\* The nil *hash.Hash: no offset.
NilHash == <<>>
ErrPoolFull == "tx pool is full"
ErrOversize == "call too large"
ErrDuplicate == "tx already exists in pool"
\* A failed size check aborts the process.
ErrPanic == "panic"

\* tx.Weight(w): the weight of tx in dimension w, 0 when absent.
Weight(tx, w) == IF w \in DOMAIN tx.weights THEN tx.weights[w] ELSE 0

(***************************************************************************)
(* item.Less: the order of the priority index.                             *)
(***************************************************************************)
RECURSIVE BytesCompare(_, _)
BytesCompare(a, b) ==
    IF a = <<>> /\ b = <<>> THEN 0
    ELSE IF a = <<>> THEN -1
    ELSE IF b = <<>> THEN 1
    ELSE IF Head(a) < Head(b) THEN -1
    ELSE IF Head(a) > Head(b) THEN 1
    ELSE BytesCompare(Tail(a), Tail(b))

\* Less with the hashes compared the wrong way round.
Less_TieReversed(i, i2) ==
    IF i.priority # i2.priority
    THEN i.priority < i2.priority
    ELSE BytesCompare(i.hash, i2.hash) > 0

Less(i, i2) ==
    IF i.priority # i2.priority
    THEN i.priority < i2.priority
    ELSE BytesCompare(i.hash, i2.hash) < 0

(***************************************************************************)
(* The btree operations the queue uses, on a set of items ordered by Less. *)
(***************************************************************************)
BTreeMin(index) == CHOOSE i \in index : \A j \in index : ~Less(j, i)
BTreeMax(index) == CHOOSE i \in index : \A j \in index : ~Less(i, j)
BTreeDelete(index, it) == {j \in index : Less(j, it) \/ Less(it, j)}
BTreeReplaceOrInsert(index, it) == BTreeDelete(index, it) \cup {it}

RECURSIVE BTreeDescend(_)
BTreeDescend(index) ==
    IF index = {} THEN <<>>
    ELSE LET m == BTreeMax(index)
         IN <<m>> \o BTreeDescend(index \ {m})

\* DescendLessOrEqual that starts from the maximum whatever the pivot.
BTreeDescendLessOrEqual_NoPivot(index, pivot) == BTreeDescend(index)

\* DescendLessOrEqual(pivot): a nil pivot starts from the maximum.  The
\* pivot is a set: empty for the nil interface, else the one pivot item.
BTreeDescendLessOrEqual(index, pivot) ==
    BTreeDescend({j \in index : \A pv \in pivot : ~Less(pv, j)})

(***************************************************************************)
(* Go maps.                                                                *)
(***************************************************************************)
EmptyMap == [k \in {} |-> 0]
MapPut(m, k, v) == [x \in (DOMAIN m) \cup {k} |-> IF x = k THEN v ELSE m[x]]
MapDelete(m, k) == [x \in (DOMAIN m) \ {k} |-> m[x]]
ZeroWeights == [d \in Dims |-> 0]

\* The mutable part of the queue, threaded through the helpers.
Q == [priorityIndex |-> priorityIndex, transactions |-> transactions,
      poolWeights |-> poolWeights, lowestPriority |-> lowestPriority,
      panicked |-> panicked]

isQueuedLocked(q, txHash) == txHash \in DOMAIN q.transactions

\* The two size checks that end Add and removeTxsLocked.
SizesInconsistent(q) ==
    \/ Cardinality(DOMAIN q.transactions) # Cardinality(q.priorityIndex)
    \/ Cardinality(DOMAIN q.transactions) # q.poolWeights[WeightCount]

(***************************************************************************)
(* removeTxsLocked.                                                        *)
(***************************************************************************)
\* SubWeights that forgets every dimension but the count.
SubWeights_CountOnly(pw, tx) ==
    [d \in Dims |-> IF d = WeightCount THEN pw[d] - Weight(tx, d) ELSE pw[d]]

SubWeights(pw, tx) == [d \in Dims |-> pw[d] - Weight(tx, d)]
AddWeights(pw, tx) == [d \in Dims |-> pw[d] + Weight(tx, d)]

\* RemoveItem without the check that skips an already removed item.
RemoveItem_NoSkip(q, item) ==
    [q EXCEPT !.transactions = MapDelete(q.transactions, item.hash),
              !.priorityIndex = BTreeDelete(q.priorityIndex, item),
              !.poolWeights = SubWeights(q.poolWeights, item)]

\* RemoveItem that leaves the item in the priority index.
RemoveItem_KeepIndex(q, item) ==
    IF ~isQueuedLocked(q, item.hash) THEN q
    ELSE [q EXCEPT !.transactions = MapDelete(q.transactions, item.hash),
                   !.poolWeights = SubWeights(q.poolWeights, item)]

\* One iteration of the removal loop.
RemoveItem(q, item) ==
    IF ~isQueuedLocked(q, item.hash) THEN q
    ELSE [q EXCEPT !.transactions = MapDelete(q.transactions, item.hash),
                   !.priorityIndex = BTreeDelete(q.priorityIndex, item),
                   !.poolWeights = SubWeights(q.poolWeights, item)]

\* The removal loop leaving after its first item.
RemoveLoop_FirstOnly(q, items) ==
    IF items = <<>> THEN q ELSE RemoveItem(q, Head(items))

RECURSIVE RemoveLoop(_, _)
RemoveLoop(q, items) ==
    IF items = <<>> THEN q
    ELSE RemoveLoop(RemoveItem(q, Head(items)), Tail(items))

\* UpdateLowestPriority that takes the priority of the greatest item.
UpdateLowestPriority_Max(q, items) ==
    IF Len(items) > 0
    THEN IF q.priorityIndex # {}
         THEN [q EXCEPT !.lowestPriority = BTreeMax(q.priorityIndex).priority]
         ELSE [q EXCEPT !.lowestPriority = 0]
    ELSE q

\* "Update lowest priority."
UpdateLowestPriority(q, items) ==
    IF Len(items) > 0
    THEN IF q.priorityIndex # {}
         THEN [q EXCEPT !.lowestPriority = BTreeMin(q.priorityIndex).priority]
         ELSE [q EXCEPT !.lowestPriority = 0]
    ELSE q

CheckSizes(q) ==
    IF SizesInconsistent(q) THEN [q EXCEPT !.panicked = TRUE] ELSE q

removeTxsLocked(q, items) ==
    CheckSizes(UpdateLowestPriority(RemoveLoop(q, items), items))

(***************************************************************************)
(* checkTxLocked and Add.                                                  *)
(***************************************************************************)
\* The transaction is heavier than the limit in some limited dimension.
TooLarge(limits, tx) == \E w \in DOMAIN limits : Weight(tx, w) > limits[w]

\* checkTxLocked without the weight check.
checkTxLocked_NoWeights(q, limits, tx) ==
    IF isQueuedLocked(q, tx.hash) THEN ErrDuplicate ELSE Nil

\* checkTxLocked without the duplicate check.
checkTxLocked_NoDuplicate(q, limits, tx) ==
    IF TooLarge(limits, tx) THEN ErrOversize ELSE Nil

checkTxLocked(q, limits, tx) ==
    IF TooLarge(limits, tx) THEN ErrOversize
    ELSE IF isQueuedLocked(q, tx.hash) THEN ErrDuplicate
    ELSE Nil

needsPop(q, maxSize) == q.poolWeights[WeightCount] >= maxSize

\* PopLowest that never evicts.
PopLowest_Never(q, pop) == q

\* "Remove the lowest priority transaction when queue is full."
PopLowest(q, pop) ==
    IF pop /\ q.priorityIndex # {}
    THEN removeTxsLocked(q, <<BTreeMin(q.priorityIndex)>>)
    ELSE q

\* The insertion that follows the checks.
InsertTx(q, tx) ==
    LET q1 == [q EXCEPT !.priorityIndex = BTreeReplaceOrInsert(q.priorityIndex, tx),
                        !.transactions = MapPut(q.transactions, tx.hash, tx),
                        !.poolWeights = AddWeights(q.poolWeights, tx)]
    IN IF tx.priority < q1.lowestPriority
       THEN [q1 EXCEPT !.lowestPriority = tx.priority]
       ELSE q1

\* Add that evicts the lowest transaction before it checks the new one.
AddResult_PopFirst(q, maxSize, limits, tx) ==
    IF needsPop(q, maxSize) /\ tx.priority <= q.lowestPriority
    THEN [q |-> q, err |-> ErrPoolFull]
    ELSE LET popped == PopLowest(q, needsPop(q, maxSize))
         IN IF checkTxLocked(popped, limits, tx) # Nil
            THEN [q |-> popped, err |-> checkTxLocked(popped, limits, tx)]
            ELSE LET added == CheckSizes(InsertTx(popped, tx))
                 IN [q |-> added,
                     err |-> IF added.panicked THEN ErrPanic ELSE Nil]

\* Add as a function of the queue: the new queue and the returned error.
AddResult(q, maxSize, limits, tx) ==
    IF needsPop(q, maxSize) /\ tx.priority <= q.lowestPriority
    THEN [q |-> q, err |-> ErrPoolFull]
    ELSE IF checkTxLocked(q, limits, tx) # Nil
    THEN [q |-> q, err |-> checkTxLocked(q, limits, tx)]
    ELSE LET popped == PopLowest(q, needsPop(q, maxSize))
         IN IF popped.panicked
            THEN [q |-> popped, err |-> ErrPanic]
            ELSE LET added == CheckSizes(InsertTx(popped, tx))
                 IN [q |-> added,
                     err |-> IF added.panicked THEN ErrPanic ELSE Nil]

\* Writes the mutable part of the queue back to the variables.
Store(q) ==
    /\ priorityIndex' = q.priorityIndex
    /\ transactions' = q.transactions
    /\ poolWeights' = q.poolWeights
    /\ lowestPriority' = q.lowestPriority
    /\ panicked' = q.panicked
    /\ removed' = {t \in priorityIndex : t \notin q.priorityIndex}

\* Where a goroutine is with respect to the queue: outside of any call,
\* blocked in q.Lock(), or inside a call holding the mutex.
Out == "out"
Blocked == "blocked"
In == "in"

\* A goroutine that is not inside a call gets past q.Lock().
Enter == \E t \in DOMAIN pc : pc[t] # In /\ pc' = [pc EXCEPT ![t] = In]

\* q.Lock() that does not wait for the mutex to be free.
Lock_NoExclusion == ~panicked /\ locked' = TRUE /\ Enter

\* q.Lock() on entry: the mutex is free and is taken.
Lock == ~locked /\ ~panicked /\ locked' = TRUE /\ Enter

Add(tx) ==
    LET r == AddResult(Q, maxTxPoolSize, weightLimits, tx)
    IN /\ Lock
       /\ Store(r.q)
       /\ op' = "add"
       /\ arg' = [tx |-> tx]
       /\ err' = r.err
       /\ batch' = <<>>
       /\ ret' = Nil
       /\ UNCHANGED <<maxTxPoolSize, weightLimits>>

(***************************************************************************)
(* GetBatch.                                                               *)
(***************************************************************************)
\* weightLimitReached that asks for the limit to be passed.
weightLimitReached_Strict(q, limits) ==
    \E k \in DOMAIN limits : q.poolWeights[k] > limits[k]

\* "Check if a batch is ready."
weightLimitReached(q, limits) ==
    \E k \in DOMAIN limits : q.poolWeights[k] >= limits[k]

minWeights ==
    [count |-> 1, size_bytes |-> 10, consensus_messages |-> 0]
MinWeight(w) == IF w \in DOMAIN minWeights THEN minWeights[w] ELSE 0

\* DimVerdict without the check that the transaction overflows the batch.
DimVerdict_NoOverflow(limits, batchWeights, tx, w) ==
    IF Weight(tx, w) > limits[w] THEN "remove"
    ELSE IF limits[w] - batchWeights[w] < MinWeight(w) THEN "stop"
    ELSE "fits"

\* DimVerdict that stops the walk at a transaction that overflows the batch.
DimVerdict_OverflowStops(limits, batchWeights, tx, w) ==
    IF Weight(tx, w) > limits[w] THEN "remove"
    ELSE IF limits[w] - batchWeights[w] < MinWeight(w) THEN "stop"
    ELSE IF batchWeights[w] + Weight(tx, w) > limits[w] THEN "stop"
    ELSE "fits"

\* DimVerdict that drops a transaction that overflows the batch.
DimVerdict_OverflowRemoves(limits, batchWeights, tx, w) ==
    IF Weight(tx, w) > limits[w] THEN "remove"
    ELSE IF limits[w] - batchWeights[w] < MinWeight(w) THEN "stop"
    ELSE IF batchWeights[w] + Weight(tx, w) > limits[w] THEN "remove"
    ELSE "fits"

\* What the body of the loop over the limits does for dimension w.
DimVerdict(limits, batchWeights, tx, w) ==
    IF Weight(tx, w) > limits[w] THEN "remove"
    ELSE IF limits[w] - batchWeights[w] < MinWeight(w) THEN "stop"
    ELSE IF batchWeights[w] + Weight(tx, w) > limits[w] THEN "skip"
    ELSE "fits"

\* The loop returns at the first dimension that does not fit; the map is
\* ranged over in an order chosen anew each time, so any such dimension can
\* be the first.
ItemVerdicts(limits, batchWeights, tx) ==
    LET vs == {DimVerdict(limits, batchWeights, tx, w) : w \in DOMAIN limits}
                  \ {"fits"}
    IN IF vs = {} THEN {"add"} ELSE vs

AddBatchWeights(batchWeights, tx) ==
    [w \in DOMAIN batchWeights |-> batchWeights[w] + Weight(tx, w)]

\* The Descend callback applied down the remaining items: the set of
\* (batch, toRemove) pairs the walk can end with.
RECURSIVE GetBatchWalk(_, _, _, _, _)
GetBatchWalk(items, limits, b, batchWeights, toRemove) ==
    IF items = <<>> THEN {[batch |-> b, toRemove |-> toRemove]}
    ELSE LET it == Head(items)
         IN UNION { CASE v = "remove" ->
                           GetBatchWalk(Tail(items), limits, b, batchWeights,
                                        Append(toRemove, it))
                      [] v = "stop" ->
                           {[batch |-> b, toRemove |-> toRemove]}
                      [] v = "skip" ->
                           GetBatchWalk(Tail(items), limits, b, batchWeights,
                                        toRemove)
                      [] v = "add" ->
                           GetBatchWalk(Tail(items), limits, Append(b, it),
                                        AddBatchWeights(batchWeights, it),
                                        toRemove)
                    : v \in ItemVerdicts(limits, batchWeights, it) }

GetBatchResults(q, limits, force) ==
    IF ~weightLimitReached(q, limits) /\ ~force
    THEN {[batch |-> <<>>, toRemove |-> <<>>, walked |-> FALSE]}
    ELSE { [batch |-> r.batch, toRemove |-> r.toRemove, walked |-> TRUE] :
             r \in GetBatchWalk(BTreeDescend(q.priorityIndex), limits, <<>>,
                                [w \in DOMAIN limits |-> 0], <<>>) }

GetBatch(force) ==
    /\ Lock
    /\ \E r \in GetBatchResults(Q, weightLimits, force) :
        /\ Store(IF r.walked THEN removeTxsLocked(Q, r.toRemove) ELSE Q)
        /\ op' = "get_batch"
        /\ arg' = [force |-> force]
        /\ err' = Nil
        /\ batch' = r.batch
        /\ ret' = Nil
        /\ UNCHANGED <<maxTxPoolSize, weightLimits>>

(***************************************************************************)
(* GetPrioritizedBatch.                                                    *)
(***************************************************************************)
\* The DescendLessOrEqual callback applied down the remaining items.
RECURSIVE PrioritizedWalk(_, _, _, _, _, _)
PrioritizedWalk(items, limits, offset, limit, b, toRemove) ==
    IF items = <<>> THEN [batch |-> b, toRemove |-> toRemove]
    ELSE LET it == Head(items)
         IN IF TooLarge(limits, it)
            THEN PrioritizedWalk(Tail(items), limits, offset, limit, b,
                                 Append(toRemove, it))
            ELSE IF offset # NilHash /\ it.hash = offset
            THEN PrioritizedWalk(Tail(items), limits, offset, limit, b,
                                 toRemove)
            ELSE IF Len(b) + 1 >= limit
            THEN [batch |-> Append(b, it), toRemove |-> toRemove]
            ELSE PrioritizedWalk(Tail(items), limits, offset, limit,
                                 Append(b, it), toRemove)

\* GetPrioritizedBatchResult that leaves what it found too large in the pool.
GetPrioritizedBatchResult_NoRemoval(q, limits, offset, limit) ==
    IF offset # NilHash /\ ~isQueuedLocked(q, offset)
    THEN [q |-> q, batch |-> <<>>]
    ELSE LET offsetItem == IF offset = NilHash THEN {}
                           ELSE {q.transactions[offset]}
             r == PrioritizedWalk(
                      BTreeDescendLessOrEqual(q.priorityIndex, offsetItem),
                      limits, offset, limit, <<>>, <<>>)
         IN [q |-> q, batch |-> r.batch]

GetPrioritizedBatchResult(q, limits, offset, limit) ==
    IF offset # NilHash /\ ~isQueuedLocked(q, offset)
    THEN [q |-> q, batch |-> <<>>]
    ELSE LET offsetItem == IF offset = NilHash THEN {}
                           ELSE {q.transactions[offset]}
             r == PrioritizedWalk(
                      BTreeDescendLessOrEqual(q.priorityIndex, offsetItem),
                      limits, offset, limit, <<>>, <<>>)
         IN [q |-> removeTxsLocked(q, r.toRemove), batch |-> r.batch]

GetPrioritizedBatch(offset, limit) ==
    LET r == GetPrioritizedBatchResult(Q, weightLimits, offset, limit)
    IN /\ Lock
       /\ Store(r.q)
       /\ op' = "get_prioritized_batch"
       /\ arg' = [offset |-> offset, limit |-> limit]
       /\ err' = Nil
       /\ batch' = r.batch
       /\ ret' = Nil
       /\ UNCHANGED <<maxTxPoolSize, weightLimits>>

(***************************************************************************)
(* RemoveTxBatch, the reconfiguration methods and Clear.                   *)
(***************************************************************************)
\* The items of the listed hashes that are in the map, in list order.
RECURSIVE KnownItems(_, _)
KnownItems(q, hashes) ==
    IF hashes = <<>> THEN <<>>
    ELSE (IF isQueuedLocked(q, Head(hashes))
          THEN <<q.transactions[Head(hashes)]>> ELSE <<>>)
         \o KnownItems(q, Tail(hashes))

RemoveTxBatchResult(q, hashes) == removeTxsLocked(q, KnownItems(q, hashes))

RemoveTxBatch(hashes) ==
    /\ Lock
    /\ Store(RemoveTxBatchResult(Q, hashes))
    /\ op' = "remove_batch"
    /\ arg' = [hashes |-> hashes]
    /\ err' = Nil
    /\ batch' = <<>>
    /\ ret' = Nil
    /\ UNCHANGED <<maxTxPoolSize, weightLimits>>

UpdateMaxPoolSize(maxPoolSize) ==
    /\ Lock
    /\ maxTxPoolSize' = maxPoolSize
    /\ op' = "update_max_pool_size"
    /\ arg' = [maxPoolSize |-> maxPoolSize]
    /\ err' = Nil
    /\ batch' = <<>>
    /\ ret' = Nil
    /\ removed' = {}
    /\ UNCHANGED <<priorityIndex, transactions, poolWeights, weightLimits,
                   lowestPriority, panicked>>

\* UpdateWeightLimits that at once drops what the new limits make too large.
UpdateWeightLimits_Eager(limits) ==
    /\ Lock
    /\ Store(removeTxsLocked(
          Q, BTreeDescend({t \in priorityIndex : TooLarge(limits, t)})))
    /\ weightLimits' = limits
    /\ op' = "update_weight_limits"
    /\ arg' = [limits |-> limits]
    /\ err' = Nil
    /\ batch' = <<>>
    /\ ret' = Nil
    /\ UNCHANGED maxTxPoolSize

UpdateWeightLimits(limits) ==
    /\ Lock
    /\ weightLimits' = limits
    /\ op' = "update_weight_limits"
    /\ arg' = [limits |-> limits]
    /\ err' = Nil
    /\ batch' = <<>>
    /\ ret' = Nil
    /\ removed' = {}
    /\ UNCHANGED <<priorityIndex, transactions, poolWeights, maxTxPoolSize,
                   lowestPriority, panicked>>

\* Clear that keeps the pool weights.
ClearResult_KeepWeights(q) ==
    [q EXCEPT !.priorityIndex = {},
              !.transactions = EmptyMap,
              !.lowestPriority = 0]

ClearResult(q) ==
    [q EXCEPT !.priorityIndex = {},
              !.transactions = EmptyMap,
              !.poolWeights = ZeroWeights,
              !.lowestPriority = 0]

Clear ==
    /\ Lock
    /\ Store(ClearResult(Q))
    /\ op' = "clear"
    /\ arg' = [none |-> Nil]
    /\ err' = Nil
    /\ batch' = <<>>
    /\ ret' = Nil
    /\ UNCHANGED <<maxTxPoolSize, weightLimits>>

(***************************************************************************)
(* GetKnownBatch, GetTransactions, IsQueued and Size: the read-only calls. *)
(***************************************************************************)
\* MissingPut with the index counted from 1.
MissingPut_FromOne(missing, txHash, index) == MapPut(missing, txHash, index + 1)

\* "missing[txHash] = index", with Go's indices from 0.
MissingPut(missing, txHash, index) == MapPut(missing, txHash, index)

\* The loop over the batch; a slot of the result is a pointer: the empty set
\* for nil, else the one transaction.
RECURSIVE KnownLoop(_, _, _, _, _)
KnownLoop(q, hashes, index, result, missing) ==
    IF hashes = <<>> THEN [result |-> result, missing |-> missing]
    ELSE IF isQueuedLocked(q, Head(hashes))
    THEN KnownLoop(q, Tail(hashes), index + 1,
                   Append(result, {q.transactions[Head(hashes)]}), missing)
    ELSE KnownLoop(q, Tail(hashes), index + 1, Append(result, {}),
                   MissingPut(missing, Head(hashes), index))

GetKnownBatchResult(q, hashes) == KnownLoop(q, hashes, 0, <<>>, EmptyMap)

GetKnownBatch(hashes) ==
    LET r == GetKnownBatchResult(Q, hashes)
    IN /\ Lock
       /\ op' = "get_known_batch"
       /\ arg' = [hashes |-> hashes]
       /\ err' = Nil
       /\ batch' = r.result
       /\ ret' = r.missing
       /\ removed' = {}
       /\ UNCHANGED <<priorityIndex, transactions, poolWeights, maxTxPoolSize,
                      weightLimits, lowestPriority, panicked>>

\* TxCount that ignores the limit.
TxCount_NoLimit(q, limit) == Cardinality(DOMAIN q.transactions)

\* The number of transactions GetTransactions is to return.
TxCount(q, limit) ==
    LET count == Cardinality(DOMAIN q.transactions)
    IN IF limit > 0 /\ limit < count THEN limit ELSE count

\* Ranging over a map visits its entries in an order chosen anew each time:
\* the lists the loop can build before it breaks at count.
RECURSIVE MapRangeTake(_, _)
MapRangeTake(S, count) ==
    IF count <= 0 \/ S = {} THEN {<<>>}
    ELSE UNION { {<<t>> \o r : r \in MapRangeTake(S \ {t}, count - 1)} : t \in S }

GetTransactionsResults(q, limit) ==
    MapRangeTake({q.transactions[h] : h \in DOMAIN q.transactions},
                 TxCount(q, limit))

GetTransactions(limit) ==
    /\ Lock
    /\ \E r \in GetTransactionsResults(Q, limit) :
        /\ op' = "get_transactions"
        /\ arg' = [limit |-> limit]
        /\ err' = Nil
        /\ batch' = r
        /\ ret' = Nil
        /\ removed' = {}
        /\ UNCHANGED <<priorityIndex, transactions, poolWeights, maxTxPoolSize,
                       weightLimits, lowestPriority, panicked>>

IsQueued(txHash) ==
    /\ Lock
    /\ op' = "is_queued"
    /\ arg' = [txHash |-> txHash]
    /\ err' = Nil
    /\ batch' = <<>>
    /\ ret' = isQueuedLocked(Q, txHash)
    /\ removed' = {}
    /\ UNCHANGED <<priorityIndex, transactions, poolWeights, maxTxPoolSize,
                   weightLimits, lowestPriority, panicked>>

Size ==
    /\ Lock
    /\ op' = "size"
    /\ arg' = [none |-> Nil]
    /\ err' = Nil
    /\ batch' = <<>>
    /\ ret' = poolWeights[WeightCount]
    /\ removed' = {}
    /\ UNCHANGED <<priorityIndex, transactions, poolWeights, maxTxPoolSize,
                   weightLimits, lowestPriority, panicked>>

(***************************************************************************)
(* newPriorityQueue and the specification.                                 *)
(***************************************************************************)
\* The hash lists handed to RemoveTxBatch: up to two hashes, repeated or not.
HashLists ==
    {<<>>} \cup {<<h>> : h \in Hashes} \cup {<<h, g>> : h \in Hashes, g \in Hashes}

\* The goroutine of a program that uses the queue from one goroutine, and
\* the goroutines of one that shares it.
MainThread == "t1"
Threads == {"t1", "t2"}

newPriorityQueue ==
    /\ priorityIndex = {}
    /\ transactions = EmptyMap
    /\ poolWeights = ZeroWeights
    /\ maxTxPoolSize \in 0..MaxPoolSize
    /\ weightLimits \in LimitChoices
    /\ lowestPriority = 0
    /\ locked = FALSE
    /\ panicked = FALSE
    /\ op = Idle
    /\ arg = [none |-> Nil]
    /\ err = Nil
    /\ batch = <<>>
    /\ ret = Nil
    /\ removed = {}

Init == newPriorityQueue /\ pc = [t \in {MainThread} |-> Out]

\* The deferred q.Unlock(): the call returns.
Unlock ==
    /\ locked
    /\ locked' = FALSE
    /\ pc' = [t \in DOMAIN pc |-> IF pc[t] = In THEN Out ELSE pc[t]]
    /\ op' = Idle
    /\ arg' = [none |-> Nil]
    /\ err' = Nil
    /\ batch' = <<>>
    /\ ret' = Nil
    /\ removed' = {}
    /\ UNCHANGED <<priorityIndex, transactions, poolWeights, maxTxPoolSize,
                   weightLimits, lowestPriority, panicked>>

Next ==
    \/ \E tx \in Txs : Add(tx)
    \/ \E force \in BOOLEAN : GetBatch(force)
    \/ \E offset \in Hashes \cup {NilHash}, limit \in 0..MaxLimit :
           GetPrioritizedBatch(offset, limit)
    \/ \E hashes \in HashLists : RemoveTxBatch(hashes)
    \/ \E n \in 0..MaxPoolSize : UpdateMaxPoolSize(n)
    \/ \E limits \in LimitChoices : UpdateWeightLimits(limits)
    \/ Clear
    \/ Unlock

Spec == Init /\ [][Next]_vars

\* The calls of Next together with the lookups by hash and Size.
NextQueries ==
    \/ Next
    \/ \E hashes \in HashLists : GetKnownBatch(hashes)
    \/ \E txHash \in Hashes : IsQueued(txHash)
    \/ Size

SpecQueries == Init /\ [][NextQueries]_vars

\* The calls of Next together with GetTransactions.
NextTransactions ==
    \/ Next
    \/ \E limit \in 0..MaxLimit : GetTransactions(limit)

SpecTransactions == Init /\ [][NextTransactions]_vars

\* A goroutine calls an operation while another holds the mutex: it blocks
\* in q.Lock().
Block(t) ==
    /\ t \in DOMAIN pc
    /\ pc[t] = Out
    /\ locked
    /\ pc' = [pc EXCEPT ![t] = Blocked]
    /\ UNCHANGED <<priorityIndex, transactions, maxTxPoolSize, poolWeights,
                   weightLimits, lowestPriority, locked, panicked, op, arg,
                   err, batch, ret, removed>>

\* A queue of one place, whose limits refuse the transactions that emit
\* consensus messages, shared by the goroutines.
InitThreads ==
    /\ newPriorityQueue
    /\ maxTxPoolSize = 1
    /\ weightLimits = [count |-> 1, consensus_messages |-> 0]
    /\ pc = [t \in Threads |-> Out]

\* The calls of the goroutines; the limits and the cap stay as constructed.
NextThreads ==
    \/ \E tx \in Txs : Add(tx)
    \/ \E force \in BOOLEAN : GetBatch(force)
    \/ \E offset \in Hashes \cup {NilHash}, limit \in 0..MaxLimit :
           GetPrioritizedBatch(offset, limit)
    \/ \E hashes \in HashLists : RemoveTxBatch(hashes)
    \/ Clear
    \/ Unlock
    \/ \E t \in Threads : Block(t)

SpecThreads == InitThreads /\ [][NextThreads]_vars

\* A goroutine blocked in q.Lock() gets the mutex.
AcquireBlocked(t) ==
    /\ pc[t] = Blocked
    /\ ~locked
    /\ pc' = [pc EXCEPT ![t] = In]
    /\ NextThreads

\* Every call returns, and sync.Mutex hands the mutex to a goroutine that
\* has been waiting for it (its starvation mode).
SpecThreadsFair ==
    /\ SpecThreads
    /\ WF_vars(Unlock)
    /\ \A t \in Threads : SF_vars(AcquireBlocked(t))

(***************************************************************************)
(* Properties.                                                             *)
(***************************************************************************)
\* The admitted transactions: the values of the hash map.
Admitted == {transactions[h] : h \in DOMAIN transactions}

MinPriority(S) ==
    CHOOSE p \in {t.priority : t \in S} : \A t \in S : p <= t.priority

RECURSIVE SumWeight(_, _)
SumWeight(S, d) ==
    IF S = {} THEN 0
    ELSE LET t == CHOOSE x \in S : TRUE
         IN t.weights[d] + SumWeight(S \ {t}, d)

RECURSIVE SeqWeight(_, _)
SeqWeight(b, d) ==
    IF b = <<>> THEN 0 ELSE Head(b).weights[d] + SeqWeight(Tail(b), d)

Max2(a, b) == IF a >= b THEN a ELSE b

\* The state of the pool proper.
poolvars == <<priorityIndex, transactions, poolWeights, lowestPriority>>

\* C1: in every reachable state the hash map, the priority index and
\* poolWeights[count] have the same size, and no size check has failed.
C1_SizesEqual ==
    /\ Cardinality(DOMAIN transactions) = Cardinality(priorityIndex)
    /\ Cardinality(priorityIndex) = poolWeights[WeightCount]
    /\ ~panicked

\* An add at capacity evicted one transaction and admitted another into a
\* pool of two: both size checks of Add and removeTxsLocked ran.
C1_Witness ==
    /\ op = "add" /\ err = Nil
    /\ removed # {}
    /\ Cardinality(priorityIndex) = 2

\* C2: the cached lowestPriority is the minimum priority of the admitted
\* transactions, and 0 when the queue is empty.
C2_LowestPriorityIsMin ==
    lowestPriority = IF Admitted = {} THEN 0 ELSE MinPriority(Admitted)

\* C3: an add into a pool at capacity of a transaction whose priority is at
\* most the minimum admitted priority fails with "tx pool is full" and
\* leaves the pool as it was.
C3_PoolFullRejects ==
    [][(/\ op' = "add"
        /\ Admitted # {}
        /\ poolWeights[WeightCount] >= maxTxPoolSize
        /\ arg'.tx.priority <= MinPriority(Admitted))
       => (err' = ErrPoolFull /\ UNCHANGED poolvars)]_vars

\* C4 as claimed: after every successful add the count is within
\* maxTxPoolSize.
C4_WithinCapAfterAdd ==
    [][(op' = "add" /\ err' = Nil)
       => poolWeights'[WeightCount] <= maxTxPoolSize']_vars

\* C4 as amended: after every successful add the count is at most the
\* largest of maxTxPoolSize, the count before the add, and 1.
C4_AddNeverGrowsPastCap ==
    [][(op' = "add" /\ err' = Nil)
       => poolWeights'[WeightCount]
            <= Max2(Max2(maxTxPoolSize, poolWeights[WeightCount]), 1)]_vars

\* A successful add evicted a transaction and left a pool of two or more
\* exactly at its cap.
C4_Witness ==
    /\ op = "add" /\ err = Nil
    /\ removed # {}
    /\ poolWeights[WeightCount] = maxTxPoolSize
    /\ maxTxPoolSize >= 2

\* C5: in every dimension poolWeights is the sum of the weights of the
\* admitted transactions.
C5_PoolWeightsAreSums ==
    \A d \in Dims : poolWeights[d] = SumWeight(Admitted, d)

\* RemoveTxBatch took a transaction out and two stay admitted, with weight
\* in the size and message dimensions.
C5_Witness ==
    /\ op = "remove_batch"
    /\ removed # {}
    /\ poolWeights[WeightCount] = 2
    /\ poolWeights[WeightSizeBytes] = 20
    /\ poolWeights[WeightConsensusMessages] = 1

\* C6: an add of a transaction heavier than some weight limit, if not
\* refused with "tx pool is full", is refused with "call too large" and
\* leaves the pool as it was.
C6_OversizeRejected ==
    [][(/\ op' = "add"
        /\ err' # ErrPoolFull
        /\ \E d \in DOMAIN weightLimits :
               arg'.tx.weights[d] > weightLimits[d])
       => (err' = ErrOversize /\ UNCHANGED poolvars)]_vars

\* A too large transaction of a priority above the pool's was refused by a
\* pool at capacity, which evicted nothing.
C6_Witness ==
    /\ op = "add" /\ err = ErrOversize
    /\ Admitted # {}
    /\ poolWeights[WeightCount] >= maxTxPoolSize
    /\ \A t \in Admitted : arg.tx.priority > t.priority
    /\ removed = {}

\* C7: an add of a hash that is already in the map fails (as a duplicate
\* unless refused earlier) and leaves the pool as it was; no two items of
\* the priority index share a hash.
C7_DuplicateRejected ==
    [][/\ (op' = "add" /\ arg'.tx.hash \in DOMAIN transactions)
             => /\ err' \in {ErrPoolFull, ErrOversize, ErrDuplicate}
                /\ UNCHANGED poolvars
       /\ \A a \in priorityIndex', b \in priorityIndex' :
              a.hash = b.hash => a = b]_vars

\* A pool at capacity refused as a duplicate a transaction whose hash it
\* holds under a lower priority, with the priority above the pool's minimum.
C7_Witness ==
    /\ op = "add" /\ err = ErrDuplicate
    /\ poolWeights[WeightCount] >= maxTxPoolSize
    /\ arg.tx.priority > MinPriority(Admitted)
    /\ arg.tx.priority > lowestPriority
    /\ arg.tx \notin priorityIndex
    /\ removed = {}

\* C8: the batch GetBatch returns weighs at most the limit in every limited
\* dimension.
C8_BatchWithinLimits ==
    op = "get_batch"
        => \A d \in DOMAIN weightLimits : SeqWeight(batch, d) <= weightLimits[d]

\* GetBatch filled a batch of two, passing over a transaction between them
\* that would have overflowed the size limit.
C8_Witness ==
    /\ op = "get_batch"
    /\ Len(batch) = 2
    /\ WeightSizeBytes \in DOMAIN weightLimits
    /\ \E t \in Admitted :
          /\ t.priority < batch[1].priority
          /\ t.priority > batch[2].priority
          /\ SeqWeight(<<batch[1]>>, WeightSizeBytes) + t.weights[WeightSizeBytes]
                > weightLimits[WeightSizeBytes]

\* C9: the batches of GetBatch and GetPrioritizedBatch go down in priority,
\* and down in hash among equal priorities, so hold no transaction twice.
C9_BatchDescending ==
    op \in {"get_batch", "get_prioritized_batch"}
        => \A i \in 1..Len(batch), j \in 1..Len(batch) :
              i < j => \/ batch[i].priority > batch[j].priority
                       \/ /\ batch[i].priority = batch[j].priority
                          /\ BytesCompare(batch[i].hash, batch[j].hash) > 0

\* GetBatch returned three transactions, the first two of one priority and
\* the third of a lower one.
C9_Witness ==
    /\ op = "get_batch"
    /\ Len(batch) = 3
    /\ batch[1].priority = batch[2].priority
    /\ batch[2].priority > batch[3].priority

\* C10: GetPrioritizedBatch returns at most limit transactions.
C10_AtMostLimit ==
    op = "get_prioritized_batch" => Len(batch) <= arg.limit

\* The mutable part of the queue in the next state.
QNext == [priorityIndex |-> priorityIndex', transactions |-> transactions',
          poolWeights |-> poolWeights', lowestPriority |-> lowestPriority',
          panicked |-> panicked']

\* The order (priority, hash), strictly.
StrictlyBelow(a, b) ==
    \/ a.priority < b.priority
    \/ a.priority = b.priority /\ BytesCompare(a.hash, b.hash) < 0

\* t is heavier than a current weight limit.
Oversize(t) == \E d \in DOMAIN weightLimits : t.weights[d] > weightLimits[d]

Elems(b) == {b[i] : i \in 1..Len(b)}

\* C11: GetPrioritizedBatch with an admitted offset returns only
\* transactions strictly below the offset item in the (priority, hash)
\* order that are not too large, the first being the greatest of them; with
\* an offset that is not admitted it returns nothing and changes nothing;
\* without offset the same holds over the whole index.
C11_OffsetExclusive ==
    [][op' = "get_prioritized_batch" =>
         LET off == arg'.offset
             known == off \in DOMAIN transactions
             cand == IF off = NilHash THEN priorityIndex
                     ELSE IF known
                     THEN {t \in priorityIndex :
                              StrictlyBelow(t, transactions[off])}
                     ELSE {}
             good == {t \in cand : ~Oversize(t)}
         IN /\ (off # NilHash /\ ~known)
                  => /\ batch' = <<>>
                     /\ UNCHANGED <<poolvars, maxTxPoolSize, weightLimits>>
            /\ Elems(batch') \subseteq good
            /\ (good # {} /\ arg'.limit >= 1)
                  => /\ Len(batch') >= 1
                     /\ \A t \in good :
                            t = batch'[1] \/ StrictlyBelow(t, batch'[1])]_vars

\* GetPrioritizedBatch was given an admitted offset with a transaction above
\* it in the index, and returned the ones below.
C11_Witness ==
    /\ op = "get_prioritized_batch"
    /\ arg.offset \in DOMAIN transactions
    /\ Len(batch) >= 1
    /\ \E t \in Admitted : StrictlyBelow(transactions[arg.offset], t)

\* C12: UpdateWeightLimits leaves a transaction it makes too large admitted,
\* and a forced GetBatch on a pool that holds only such a transaction
\* removes it, returns nothing and takes its weights off the pool weights.
C12_LazyOversizeRemoval ==
    [][/\ op' = "update_weight_limits" => UNCHANGED poolvars
       /\ (/\ op' = "get_batch"
           /\ arg'.force
           /\ \E t \in priorityIndex : priorityIndex = {t} /\ Oversize(t))
          => /\ batch' = <<>>
             /\ priorityIndex' = {}
             /\ DOMAIN transactions' = {}
             /\ \A d \in Dims : poolWeights'[d] = 0]_vars

\* C13: after RemoveTxBatch(X) a second RemoveTxBatch(X) changes nothing.
C13_RemoveIdempotent ==
    op = "remove_batch" =>
        LET q2 == RemoveTxBatchResult(Q, arg.hashes)
        IN /\ q2.priorityIndex = priorityIndex
           /\ q2.transactions = transactions
           /\ q2.poolWeights = poolWeights
           /\ q2.lowestPriority = lowestPriority

\* RemoveTxBatch took two transactions out, listed one after the other, and
\* one stays.
C13_Witness ==
    /\ op = "remove_batch"
    /\ Len(arg.hashes) = 2
    /\ Cardinality(removed) = 2
    /\ priorityIndex # {}

\* C14 as claimed: a successful add followed by the removal of the added
\* hash gives back the admitted transactions and pool weights of before.
C14_AddRemoveIdentity ==
    [][(op' = "add" /\ err' = Nil) =>
         LET q2 == RemoveTxBatchResult(QNext, <<arg'.tx.hash>>)
         IN /\ q2.priorityIndex = priorityIndex
            /\ q2.transactions = transactions
            /\ q2.poolWeights = poolWeights]_vars

\* What an add evicts: the least item of a non-empty pool at capacity.
EvictedByAdd ==
    IF poolWeights[WeightCount] >= maxTxPoolSize
    THEN {t \in priorityIndex :
             \A u \in priorityIndex : u = t \/ StrictlyBelow(t, u)}
    ELSE {}

\* C14 as amended: a successful add followed by the removal of the added
\* hash gives back the admitted transactions and pool weights of before,
\* less the transaction the add evicted from a pool at capacity.
C14_AddRemoveIdentityLessEvicted ==
    [][(op' = "add" /\ err' = Nil) =>
         LET q2 == RemoveTxBatchResult(QNext, <<arg'.tx.hash>>)
             gone == {t.hash : t \in EvictedByAdd}
         IN /\ q2.priorityIndex = priorityIndex \ EvictedByAdd
            /\ DOMAIN q2.transactions = (DOMAIN transactions) \ gone
            /\ \A h \in DOMAIN q2.transactions :
                   q2.transactions[h] = transactions[h]
            /\ \A d \in Dims :
                   q2.poolWeights[d]
                       = poolWeights[d] - SumWeight(EvictedByAdd, d)]_vars

\* A transaction was added to a pool of two at its cap of two, the least of
\* the two was evicted for it, and the other one stays when it is removed.
C14_Witness ==
    /\ op = "add" /\ err = Nil
    /\ Cardinality(removed) = 1
    /\ maxTxPoolSize = 2
    /\ poolWeights[WeightCount] = 2
    /\ Cardinality(
          RemoveTxBatchResult(Q, <<arg.tx.hash>>).priorityIndex) = 1

\* C15: a successful add into a pool at capacity does not lower
\* lowestPriority.
C15_EvictionMonotone ==
    [][(/\ op' = "add" /\ err' = Nil
        /\ poolWeights[WeightCount] >= maxTxPoolSize)
       => lowestPriority' >= lowestPriority]_vars

\* The listed hashes.
Listed(hashes) == {hashes[i] : i \in 1..Len(hashes)}

\* C16: RemoveTxBatch(X) takes out of both indices exactly the admitted
\* transactions whose hash is in X, takes the weights of each off the pool
\* weights once, and leaves the others, the limits and the cap alone.
C16_RemoveExactlyListed ==
    [][op' = "remove_batch" =>
         LET H == Listed(arg'.hashes)
             out == {t \in Admitted : t.hash \in H}
         IN /\ priorityIndex' = {t \in priorityIndex : t.hash \notin H}
            /\ DOMAIN transactions' = (DOMAIN transactions) \ H
            /\ \A h \in DOMAIN transactions' :
                   transactions'[h] = transactions[h]
            /\ \A d \in Dims :
                   poolWeights'[d] = poolWeights[d] - SumWeight(out, d)
            /\ UNCHANGED <<weightLimits, maxTxPoolSize>>]_vars

\* RemoveTxBatch was given one hash twice, took its transaction out once and
\* left others admitted.
C16_Witness ==
    /\ op = "remove_batch"
    /\ Len(arg.hashes) = 2
    /\ arg.hashes[1] = arg.hashes[2]
    /\ Cardinality(removed) = 1
    /\ Cardinality(priorityIndex) = 2

\* C17: GetKnownBatch returns a list as long as its input whose slot i holds
\* the admitted transaction of the i-th hash or nil, and a map from exactly
\* the hashes that are not admitted to an index at which they are listed; it
\* changes nothing.
C17_KnownBatch ==
    [][op' = "get_known_batch" =>
         LET fps == arg'.hashes
         IN /\ Len(batch') = Len(fps)
            /\ \A i \in 1..Len(fps) :
                   batch'[i] = IF fps[i] \in DOMAIN transactions
                               THEN {transactions[fps[i]]} ELSE {}
            /\ DOMAIN ret' = Listed(fps) \ DOMAIN transactions
            /\ \A h \in DOMAIN ret' :
                   /\ ret'[h] \in 0..(Len(fps) - 1)
                   /\ fps[ret'[h] + 1] = h
            /\ UNCHANGED <<poolvars, maxTxPoolSize, weightLimits>>]_vars

\* GetKnownBatch was given a hash that is not admitted and then one that is.
C17_Witness ==
    /\ op = "get_known_batch"
    /\ Len(arg.hashes) = 2
    /\ batch[1] = {}
    /\ batch[2] # {}
    /\ DOMAIN ret = {arg.hashes[1]}

\* C18: GetTransactions returns distinct admitted transactions, all of them
\* for limit 0 and the lesser of limit and their number otherwise, and
\* changes nothing.
C18_GetTransactions ==
    [][op' = "get_transactions" =>
         LET n == Cardinality(Admitted)
             limit == arg'.limit
         IN /\ Elems(batch') \subseteq Admitted
            /\ \A i \in 1..Len(batch'), j \in 1..Len(batch') :
                   batch'[i] = batch'[j] => i = j
            /\ Len(batch') = IF limit = 0 \/ limit > n THEN n ELSE limit
            /\ UNCHANGED <<poolvars, maxTxPoolSize, weightLimits>>]_vars

\* GetTransactions returned two of three admitted transactions, one of them
\* too large for the current limits.
C18_Witness ==
    /\ op = "get_transactions"
    /\ arg.limit = 2
    /\ Len(batch) = 2
    /\ Cardinality(Admitted) = 3
    /\ \E i \in 1..2 : Oversize(batch[i])

\* C19: UpdateMaxPoolSize changes only maxTxPoolSize and UpdateWeightLimits
\* only weightLimits.
C19_ReconfigureFrame ==
    [][/\ op' = "update_max_pool_size"
            => /\ maxTxPoolSize' = arg'.maxPoolSize
               /\ UNCHANGED <<poolvars, weightLimits>>
       /\ op' = "update_weight_limits"
            => /\ weightLimits' = arg'.limits
               /\ UNCHANGED <<poolvars, maxTxPoolSize>>]_vars

\* UpdateWeightLimits has made an admitted transaction too large, in a pool
\* that holds more than its cap.
C19_Witness ==
    /\ op = "update_weight_limits"
    /\ \E t \in Admitted : Oversize(t)
    /\ poolWeights[WeightCount] > maxTxPoolSize

\* C20: Clear empties both indices, zeroes the pool weights and
\* lowestPriority, keeps the limits and the cap, and a transaction admitted
\* before it is never refused as a duplicate after it: it is admitted unless
\* too large or the cap is 0.
C20_Clear ==
    [][op' = "clear" =>
         /\ priorityIndex' = {}
         /\ DOMAIN transactions' = {}
         /\ \A d \in Dims : poolWeights'[d] = 0
         /\ lowestPriority' = 0
         /\ \A h \in Hashes : ~isQueuedLocked(QNext, h)
         /\ UNCHANGED <<weightLimits, maxTxPoolSize>>
         /\ \A t \in priorityIndex :
                LET r == AddResult(QNext, maxTxPoolSize', weightLimits', t)
                IN /\ r.err # ErrDuplicate
                   /\ (~Oversize(t) /\ maxTxPoolSize >= 1)
                         => /\ r.err = Nil
                            /\ r.q.priorityIndex = {t}]_vars

\* Clear dropped two transactions from a queue with a cap of at least 1.
C20_Witness ==
    /\ op = "clear"
    /\ Cardinality(removed) = 2
    /\ maxTxPoolSize >= 1

\* The goroutines inside a call.
Inside == {t \in DOMAIN pc : pc[t] = In}

\* C21: with several goroutines calling the queue, at most one is inside a
\* call at any time and it is there exactly while the mutex is held; while
\* the mutex is held by a call no other goroutine changes the queue or the
\* results of the call, so the calls take effect one after the other in the
\* order the mutex was taken; every call, add's error returns included,
\* gives the mutex back; and a goroutine blocked on the mutex gets it.
C21_MutualExclusion ==
    /\ [](/\ Cardinality(Inside) <= 1
          /\ locked <=> Inside # {}
          /\ op # Idle <=> locked)
    /\ [][(locked /\ locked')
            => UNCHANGED <<poolvars, maxTxPoolSize, weightLimits, op, arg,
                           err, batch, ret, removed>>]_vars
    /\ [][(Inside # {} /\ Inside' # Inside) => (~locked' /\ Inside' = {})]_vars
    /\ (locked ~> ~locked)
    /\ \A t \in Threads : (pc[t] = Blocked) ~> (pc[t] = In)

\* One goroutine is inside an add that returns an error while the other is
\* blocked on the mutex.
C21_Witness ==
    /\ op = "add" /\ err # Nil
    /\ \E t \in DOMAIN pc, u \in DOMAIN pc : pc[t] = In /\ pc[u] = Blocked

\* C22: a successful add that evicts evicts exactly one transaction, the
\* least of the priority index, whose priority is strictly less than the
\* priority of the added one.
C22_EvictsStrictlyLower ==
    [][(op' = "add" /\ err' = Nil /\ removed' # {})
        => /\ Cardinality(removed') = 1
           /\ \A e \in removed' :
                  /\ e \in priorityIndex
                  /\ \A u \in priorityIndex : u = e \/ StrictlyBelow(e, u)
                  /\ e.priority < arg'.tx.priority]_vars

\* The batch the rule of inclusion gives down the items: a transaction is
\* taken when in every limited dimension it is within the limit, the room
\* left is at least the least weight, and it fits the room left.
RECURSIVE IncludedDown(_, _, _)
IncludedDown(items, limits, bw) ==
    IF items = <<>> THEN <<>>
    ELSE LET tx == Head(items)
             take == \A d \in DOMAIN limits :
                        /\ tx.weights[d] <= limits[d]
                        /\ limits[d] - bw[d] >= MinWeight(d)
                        /\ bw[d] + tx.weights[d] <= limits[d]
         IN IF take
            THEN <<tx>> \o IncludedDown(Tail(items), limits,
                              [d \in DOMAIN limits |-> bw[d] + tx.weights[d]])
            ELSE IncludedDown(Tail(items), limits, bw)

\* The pool has reached one of its limits.
Ready == \E d \in DOMAIN weightLimits : poolWeights[d] >= weightLimits[d]

\* C23: the batch of a GetBatch that walks the index is, from the highest
\* item down, every transaction that in each limited dimension is not
\* oversize, finds room of at least the least weight (count 1, size_bytes
\* 10) and fits the room left; one that overflows is passed over and the
\* walk goes on to the lower ones.
C23_InclusionRule ==
    [][(op' = "get_batch" /\ (arg'.force \/ Ready))
        => batch' = IncludedDown(BTreeDescend(priorityIndex), weightLimits,
                                 [d \in DOMAIN weightLimits |-> 0])]_vars

\* GetBatch took the highest transaction, passed over the second, which
\* overflows the size limit, left it admitted, and took the third.
C23_Witness ==
    /\ op = "get_batch"
    /\ Len(batch) = 2
    /\ removed = {}
    /\ \E t \in Admitted :
           /\ StrictlyBelow(t, batch[1])
           /\ StrictlyBelow(batch[2], t)
           /\ ~Oversize(t)

\* C24: GetBatch(false) on a pool that has reached none of its limits
\* returns nothing and changes nothing; on a pool that has reached one it
\* does what GetBatch(true) can do.
C24_NotReadyNoForce ==
    [][(op' = "get_batch" /\ ~arg'.force)
        => IF Ready
           THEN \E r \in GetBatchResults(Q, weightLimits, TRUE) :
                    /\ batch' = r.batch
                    /\ QNext = removeTxsLocked(Q, r.toRemove)
                    /\ UNCHANGED <<maxTxPoolSize, weightLimits>>
           ELSE /\ batch' = <<>>
                /\ UNCHANGED <<poolvars, maxTxPoolSize, weightLimits>>]_vars

\* GetBatch(false) returned nothing from a pool that holds transactions
\* under limits none of which is reached.
C24_Witness ==
    /\ op = "get_batch"
    /\ ~arg.force
    /\ batch = <<>>
    /\ priorityIndex # {}
    /\ DOMAIN weightLimits # {}
    /\ ~Ready

\* C25: after RemoveTxBatch lowestPriority is the least priority of the
\* transactions that remain, or 0 if none does.
C25_LowestAfterRemove ==
    [][op' = "remove_batch"
        => lowestPriority' = IF priorityIndex' = {} THEN 0
                             ELSE MinPriority(priorityIndex')]_vars

\* C26: GetPrioritizedBatch returns no transaction that is oversize under
\* the current limits, removes only oversize transactions, and after a call
\* without offset that returns fewer than limit transactions no admitted
\* transaction is oversize; the weights of the batch are not held to the
\* limits.
C26_PrioritizedOversize ==
    [][op' = "get_prioritized_batch"
        => /\ \A t \in Elems(batch') : ~Oversize(t)
           /\ \A t \in priorityIndex \ priorityIndex' : Oversize(t)
           /\ (arg'.offset = NilHash /\ Len(batch') < arg'.limit)
                 => \A t \in priorityIndex' : ~Oversize(t)]_vars

\* GetPrioritizedBatch returned a batch heavier than a weight limit and
\* removed an oversize transaction on its way.
C26_Witness ==
    /\ op = "get_prioritized_batch"
    /\ \E d \in DOMAIN weightLimits : SeqWeight(batch, d) > weightLimits[d]
    /\ removed # {}

\* C27: a hash becomes admitted only by a successful add of its
\* transaction; it stops being admitted only by eviction as the least item
\* in the add of another at capacity, by a batch query while it is oversize,
\* by a RemoveTxBatch that lists it, or by Clear; what a batch query returns
\* is still admitted when it returns.
C27_Transitions ==
    [][/\ \A h \in (DOMAIN transactions') \ DOMAIN transactions :
              /\ op' = "add" /\ err' = Nil
              /\ arg'.tx.hash = h
              /\ transactions'[h] = arg'.tx
       /\ \A h \in (DOMAIN transactions) \ DOMAIN transactions' :
              LET t == transactions[h]
              IN \/ /\ op' = "add" /\ err' = Nil
                    /\ arg'.tx.hash # h
                    /\ poolWeights[WeightCount] >= maxTxPoolSize
                    /\ \A u \in priorityIndex : u = t \/ StrictlyBelow(t, u)
                 \/ /\ op' \in {"get_batch", "get_prioritized_batch"}
                    /\ Oversize(t)
                 \/ /\ op' = "remove_batch"
                    /\ h \in Listed(arg'.hashes)
                 \/ op' = "clear"
       /\ \A h \in (DOMAIN transactions) \cap DOMAIN transactions' :
              transactions'[h] = transactions[h]
       /\ op' \in {"get_batch", "get_prioritized_batch"}
              => Elems(batch') \subseteq {transactions'[h] :
                                            h \in DOMAIN transactions'}]_vars

\* GetBatch returned a transaction, which stays admitted, and removed an
\* oversize one.
C27_Witness ==
    /\ op = "get_batch"
    /\ batch # <<>>
    /\ removed # {}
    /\ Elems(batch) \subseteq Admitted

\* C28: whenever the queue is not empty lowestPriority is at most the least
\* admitted priority, so an add that is refused as pool full has a priority
\* at most the least admitted one.
C28_LowestNeverTooHigh ==
    [][/\ priorityIndex # {} => lowestPriority <= MinPriority(priorityIndex)
       /\ priorityIndex' # {}
              => lowestPriority' <= MinPriority(priorityIndex')
       /\ (op' = "add" /\ err' = ErrPoolFull /\ priorityIndex # {})
              => arg'.tx.priority <= MinPriority(priorityIndex)]_vars

\* An add was refused as pool full by a queue whose lowestPriority is not 0.
C28_Witness ==
    /\ op = "add"
    /\ err = ErrPoolFull
    /\ priorityIndex # {}
    /\ lowestPriority > 0

\* C29: an add that returns an error leaves the queue as it was.
C29_FailedAddNoChange ==
    [][(op' = "add" /\ err' \in {ErrPoolFull, ErrOversize, ErrDuplicate})
        => /\ UNCHANGED <<poolvars, maxTxPoolSize, weightLimits>>
           /\ removed' = {}]_vars

\* An add that would have evicted the least transaction of a pool at
\* capacity was refused as too large.
C29_Witness ==
    /\ op = "add"
    /\ err = ErrOversize
    /\ priorityIndex # {}
    /\ poolWeights[WeightCount] >= maxTxPoolSize
    /\ arg.tx.priority > lowestPriority

\* C30: whatever order the weight limits are ranged over, GetBatch returns
\* the same batch and leaves the same queue.
C30_OrderIndependent ==
    \A force \in BOOLEAN :
        \A r1, r2 \in GetBatchResults(Q, weightLimits, force) :
            /\ r1.batch = r2.batch
            /\ removeTxsLocked(Q, r1.toRemove)
                   = removeTxsLocked(Q, r2.toRemove)

\* C31: a forced GetBatch on a pool that holds a transaction that is not
\* oversize returns a batch that is not empty and starts with the highest
\* admitted transaction that is not oversize.
C31_NonOversizeBatched ==
    [][(/\ op' = "get_batch"
        /\ arg'.force
        /\ \E t \in priorityIndex : ~Oversize(t))
        => /\ batch' # <<>>
           /\ batch'[1] \in priorityIndex
           /\ ~Oversize(batch'[1])
           /\ \A t \in priorityIndex :
                  Oversize(t) \/ t = batch'[1]
                      \/ StrictlyBelow(t, batch'[1])]_vars

====
